---- MODULE Spec2Model ----
(***************************************************************************)
(* Model of final_outcome.py: a voice-started cleaning run of a robot with *)
(* an infrared obstacle override.  Every handler invocation is an asyncio  *)
(* task; the code between two awaits is one atomic step of its task.  The  *)
(* event loop runs the tasks that can run in the order in which they       *)
(* became able to: a task created for a message, or one that gave way with *)
(* sleep(0), runs before the loop takes the next answer of the robot or    *)
(* the next expired sleep, and the task such an event wakes runs at once.  *)
(* Messages may arrive behind each other before their tasks have run.      *)
(* Sleeps are counted in seconds.                                          *)
(***************************************************************************)
EXTENDS Integers, Sequences, FiniteSets, Bags, TLC

(* ---- bounds of the model ---- *)
(* messages delivered plus non-success answers of the robot *)
MaxEvents == 3

(* ---- program constants ---- *)
THRESHOLD == 150
SETTLE == 1
COOLDOWN == 2
RETREAT == 5

TTS_START == "Starting cleaning process"
TTS_SHUT == "Shutting down."
TTS_OBSTACLE == "Obstacle detected, stopping movement."
TTS_FINISHED == "Finished cleaning, returning to home position"

PlanSwapped ==
  << <<"FORWARD", 9>>, <<"RIGHTWARD", 6>>, <<"BACKWARD", 4>>, <<"FORWARD", 5>> >>

Plan == << <<"FORWARD", 9>>, <<"BACKWARD", 4>>, <<"RIGHTWARD", 6>>, <<"FORWARD", 5>> >>

(* the steps of the chain whose condition reads STOP_MOVE_SEQUENCE *)
ChecksInterrupt(k) == k \in {1, 3, 4}

(* index of the plan step a (re)started move_sequence issues first *)
FirstStep == 1

(* ---- text normalisation: str(msg.text).strip().lower() ---- *)
Lower(c) ==
  CASE c = "H" -> "h" [] c = "E" -> "e" [] c = "L" -> "l" [] c = "O" -> "o"
    [] c = "F" -> "f" [] c = "I" -> "i" [] c = "N" -> "n" [] c = "S" -> "s"
    [] OTHER -> c

LowerAll(s) == [i \in 1..Len(s) |-> Lower(s[i])]

RECURSIVE LStrip(_)
LStrip(s) == IF s # <<>> /\ Head(s) = " " THEN LStrip(Tail(s)) ELSE s

RECURSIVE RStrip(_)
RStrip(s) ==
  IF s # <<>> /\ s[Len(s)] = " " THEN RStrip(SubSeq(s, 1, Len(s) - 1)) ELSE s

Strip(s) == RStrip(LStrip(s))

Normalize(s) == LowerAll(Strip(s))

HELLO == <<"h", "e", "l", "l", "o", ".">>
FINISH == <<"f", "i", "n", "i", "s", "h", ".">>

(* utterances the recogniser may deliver *)
Utterances ==
  { <<" ", "H", "e", "l", "l", "o", ".", " ">>,
    <<"F", "i", "n", "i", "s", "h", ".">>,
    <<"h", "e", "l", "l", "o">> }

(* distances the sensor may report *)
Distances == {THRESHOLD - 1, THRESHOLD}

(* ---- state ---- *)
VARIABLES
  STOP_MOVE_SEQUENCE,  \* the global flag
  speechActive,        \* the ObserveSpeechRecognise observer is started
  irObs,               \* one entry per ObserveInfraredDistance created: started?
  tasks,               \* bag of the handler tasks created so far
  released             \* shutdown() has completed

vars == <<STOP_MOVE_SEQUENCE, speechActive, irObs, tasks, released>>

(* what a task has asked of the robot so far, and what it was answered *)
Ev(op, a, b) == [op |-> op, a |-> a, b |-> b]
TtsEv(text) == Ev("tts", text, 0)
MoveEv(step) == Ev("move", step[1], step[2])
ResultEv(ok) == Ev("result", IF ok THEN "ok" ELSE "fail", 0)
SleepEv(secs) == Ev("sleep", "sleep", secs)

(* msg.text and msg.distance are read by the first step of a handler only; *)
(* NoText and NoDistance stand for a message no longer referred to         *)
NoText == <<>>
NoDistance == 0

(* a task: pc is the await it is suspended at ("new": not yet run, "done": *)
(* returned), k the plan step in progress, rem the seconds left of its     *)
(* sleep, hist its calls so far                                            *)
NewTask(kind, text, distance, obs) ==
  [kind |-> kind, pc |-> "new", k |-> 0, rem |-> 0, obs |-> obs,
   text |-> text, distance |-> distance, hist |-> <<>>]

Tasks == BagToSet(tasks)
NumMessages == BagCardinality(tasks)

ReadyPcs == {"new", "s_yield"}
SleepPcs == {"m_settle", "i_cool1", "i_settle", "i_cool2"}
MovePcs == {"m_wait", "i_retreat"}
TtsPcs == {"s_tts_start", "s_tts_shut", "i_tts", "m_tts_fin"}

(* no task is waiting to run: the loop takes the next event *)
LoopIdle == \A r \in Tasks : r.pc \notin ReadyPcs

(* no task has given way with sleep(0): a message taken now has its task   *)
(* run behind that one, which is the same as taking it afterwards          *)
NoneYielded == \A r \in Tasks : r.pc # "s_yield"

FailsIn(r) == Len(SelectSeq(r.hist, LAMBDA e : e.op = "result" /\ e.a = "fail"))

RECURSIVE FailsOf(_)
FailsOf(S) ==
  IF S = {} THEN 0
  ELSE LET r == CHOOSE x \in S : TRUE IN tasks[r] * FailsIn(r) + FailsOf(S \ {r})

(* number of non-success results the robot has returned so far *)
NumFailures == FailsOf(Tasks)

(* what the surroundings have done so far: messages and non-success answers *)
NumEvents == NumMessages + NumFailures

Init ==
  /\ STOP_MOVE_SEQUENCE = FALSE
  /\ speechActive = TRUE
  /\ irObs = <<>>
  /\ tasks = EmptyBag
  /\ released = FALSE

(* ---- event delivery: the lambda handlers create a task per message ---- *)
Utter(u) ==
  /\ speechActive
  /\ NoneYielded
  /\ NumEvents < MaxEvents
  /\ tasks' = tasks (+) SetToBag({NewTask("speech", u, NoDistance, 0)})
  /\ UNCHANGED <<STOP_MOVE_SEQUENCE, speechActive, irObs, released>>

Reading(o, d) ==
  /\ irObs[o]
  /\ NoneYielded
  /\ NumEvents < MaxEvents
  /\ tasks' = tasks (+) SetToBag({NewTask("ir", NoText, d, o)})
  /\ UNCHANGED <<STOP_MOVE_SEQUENCE, speechActive, irObs, released>>

(* ---- one task runs from the await that returned to its next await ---- *)
Moved(r, pc, k, rem, evs) ==
  [r EXCEPT !.pc = pc, !.k = k, !.rem = rem, !.text = NoText,
            !.distance = NoDistance, !.hist = @ \o evs]

Upd(r, pc, k, rem, evs) ==
  tasks' = (tasks (-) SetToBag({r})) (+) SetToBag({Moved(r, pc, k, rem, evs)})

(* a restart that goes on with the third step instead of the first *)
EnterSequenceMidway(r, evs) ==
  /\ STOP_MOVE_SEQUENCE' = FALSE
  /\ Upd(r, "m_wait", 3, 0, evs \o <<MoveEv(<<"RIGHTWARD", 6>>)>>)

(* move_sequence entered: the flag is reset and the first step is sent *)
EnterSequence(r, evs) ==
  /\ STOP_MOVE_SEQUENCE' = FALSE
  /\ Upd(r, "m_wait", FirstStep, 0, evs \o <<MoveEv(Plan[FirstStep])>>)

(* the chain of move_sequence after step k returned True *)
Continue(r, k, evs) ==
  IF ChecksInterrupt(k) /\ STOP_MOVE_SEQUENCE
  THEN Upd(r, "done", k, 0, evs)
  ELSE IF k < Len(Plan)
       THEN Upd(r, "m_wait", k + 1, 0, evs \o <<MoveEv(Plan[k + 1])>>)
       ELSE Upd(r, "m_tts_fin", k, 0, evs \o <<TtsEv(TTS_FINISHED)>>)

(* observe_speech.handler up to its first await *)
SpeechStart(r) ==
  /\ r.kind = "speech" /\ r.pc = "new"
  /\ LET text == Normalize(r.text) IN
       IF text = HELLO
       THEN Upd(r, "s_tts_start", 0, 0, <<TtsEv(TTS_START)>>)
       ELSE IF text = FINISH
            THEN Upd(r, "s_tts_shut", 0, 0, <<TtsEv(TTS_SHUT)>>)
            ELSE Upd(r, "done", 0, 0, <<>>)
  /\ UNCHANGED <<STOP_MOVE_SEQUENCE, speechActive, irObs, released>>

(* observe_speech.handler: move_sequence() is called after the sleep(0) *)
StartSequence(r) ==
  /\ r.pc = "s_yield"
  /\ \A q \in Tasks : q.pc # "new"
  /\ EnterSequence(r, <<SleepEv(0)>>)
  /\ UNCHANGED <<speechActive, irObs, released>>

(* a handler that also trips on a reading equal to the threshold *)
IrStartInclusive(r) ==
  /\ r.kind = "ir" /\ r.pc = "new"
  /\ IF r.distance <= THRESHOLD
     THEN /\ irObs' = [irObs EXCEPT ![r.obs] = FALSE]
          /\ STOP_MOVE_SEQUENCE' = TRUE
          /\ Upd(r, "i_tts", 0, 0, <<TtsEv(TTS_OBSTACLE)>>)
     ELSE /\ Upd(r, "done", 0, 0, <<>>)
          /\ UNCHANGED <<irObs, STOP_MOVE_SEQUENCE>>
  /\ UNCHANGED <<speechActive, released>>

(* observe_infrared_distance.handler up to its first await *)
IrStart(r) ==
  /\ r.kind = "ir" /\ r.pc = "new"
  /\ IF r.distance < THRESHOLD
     THEN /\ irObs' = [irObs EXCEPT ![r.obs] = FALSE]
          /\ STOP_MOVE_SEQUENCE' = TRUE
          /\ Upd(r, "i_tts", 0, 0, <<TtsEv(TTS_OBSTACLE)>>)
     ELSE /\ Upd(r, "done", 0, 0, <<>>)
          /\ UNCHANGED <<irObs, STOP_MOVE_SEQUENCE>>
  /\ UNCHANGED <<speechActive, released>>

(* a start-up that leaves the speech observer started *)
TtsAckListening(r) ==
  /\ LoopIdle
  /\ r.pc \in TtsPcs
  /\ CASE r.pc = "s_tts_start" ->
            /\ irObs' = Append(irObs, TRUE)
            /\ Upd(r, "s_yield", 0, 0, <<>>)
            /\ UNCHANGED <<STOP_MOVE_SEQUENCE, speechActive, released>>
       [] r.pc = "s_tts_shut" ->
            /\ speechActive' = FALSE
            /\ Upd(r, "s_shutdown", 0, 0, <<>>)
            /\ UNCHANGED <<STOP_MOVE_SEQUENCE, irObs, released>>
       [] r.pc = "i_tts" ->
            /\ Upd(r, "i_cool1", 0, COOLDOWN, <<>>)
            /\ UNCHANGED <<STOP_MOVE_SEQUENCE, speechActive, irObs, released>>
       [] r.pc = "m_tts_fin" ->
            /\ Upd(r, "done", r.k, 0, <<>>)
            /\ UNCHANGED <<STOP_MOVE_SEQUENCE, speechActive, irObs, released>>

(* StartPlayTTS.execute() returns inside play_tts, the caller goes on *)
TtsAck(r) ==
  /\ LoopIdle
  /\ r.pc \in TtsPcs
  /\ CASE r.pc = "s_tts_start" ->
            /\ speechActive' = FALSE
            /\ irObs' = Append(irObs, TRUE)
            /\ Upd(r, "s_yield", 0, 0, <<>>)
            /\ UNCHANGED <<STOP_MOVE_SEQUENCE, released>>
       [] r.pc = "s_tts_shut" ->
            /\ speechActive' = FALSE
            /\ Upd(r, "s_shutdown", 0, 0, <<>>)
            /\ UNCHANGED <<STOP_MOVE_SEQUENCE, irObs, released>>
       [] r.pc = "i_tts" ->
            /\ Upd(r, "i_cool1", 0, COOLDOWN, <<>>)
            /\ UNCHANGED <<STOP_MOVE_SEQUENCE, speechActive, irObs, released>>
       [] r.pc = "m_tts_fin" ->
            /\ Upd(r, "done", r.k, 0, <<>>)
            /\ UNCHANGED <<STOP_MOVE_SEQUENCE, speechActive, irObs, released>>

(* a move_robot whose caller goes on after a non-success result of a plan step *)
MoveAckCarryOn(r, ok) ==
  /\ LoopIdle
  /\ r.pc \in MovePcs
  /\ ok \/ NumEvents < MaxEvents
  /\ IF ok \/ r.pc = "m_wait"
     THEN Upd(r, IF r.pc = "m_wait" THEN "m_settle" ELSE "i_settle",
              r.k, SETTLE, <<ResultEv(ok)>>)
     ELSE Upd(r, "i_cool2", 0, COOLDOWN, <<ResultEv(FALSE)>>)
  /\ UNCHANGED <<STOP_MOVE_SEQUENCE, speechActive, irObs, released>>

(* a recovery that ends when its retreat step returns a non-success result *)
MoveAckGiveUp(r, ok) ==
  /\ LoopIdle
  /\ r.pc \in MovePcs
  /\ ok \/ NumEvents < MaxEvents
  /\ IF ok
     THEN Upd(r, IF r.pc = "m_wait" THEN "m_settle" ELSE "i_settle",
              r.k, SETTLE, <<ResultEv(TRUE)>>)
     ELSE Upd(r, "done", r.k, 0, <<ResultEv(FALSE)>>)
  /\ UNCHANGED <<STOP_MOVE_SEQUENCE, speechActive, irObs, released>>

(* MoveRobot.execute() returns inside move_robot *)
MoveAck(r, ok) ==
  /\ LoopIdle
  /\ r.pc \in MovePcs
  /\ ok \/ NumEvents < MaxEvents
  /\ IF ok
     THEN Upd(r, IF r.pc = "m_wait" THEN "m_settle" ELSE "i_settle",
              r.k, SETTLE, <<ResultEv(TRUE)>>)
     ELSE IF r.pc = "m_wait"
          THEN Upd(r, "done", r.k, 0, <<ResultEv(FALSE)>>)
          ELSE Upd(r, "i_cool2", 0, COOLDOWN, <<ResultEv(FALSE)>>)
  /\ UNCHANGED <<STOP_MOVE_SEQUENCE, speechActive, irObs, released>>

(* a recovery that waits out both cooldowns without moving the robot *)
TimerFireNoRetreat(r) ==
  /\ LoopIdle
  /\ r.pc \in SleepPcs
  /\ r.rem = 0
  /\ CASE r.pc = "m_settle" ->
            /\ Continue(r, r.k, <<SleepEv(SETTLE)>>)
            /\ UNCHANGED <<STOP_MOVE_SEQUENCE, irObs>>
       [] r.pc = "i_cool1" ->
            /\ Upd(r, "i_cool2", 0, COOLDOWN, <<SleepEv(COOLDOWN)>>)
            /\ UNCHANGED <<STOP_MOVE_SEQUENCE, irObs>>
       [] r.pc = "i_settle" ->
            /\ Upd(r, "i_cool2", 0, COOLDOWN, <<SleepEv(SETTLE)>>)
            /\ UNCHANGED <<STOP_MOVE_SEQUENCE, irObs>>
       [] r.pc = "i_cool2" ->
            /\ irObs' = [irObs EXCEPT ![r.obs] = TRUE]
            /\ EnterSequence(r, <<SleepEv(COOLDOWN)>>)
  /\ UNCHANGED <<speechActive, released>>

(* a recovery that restarts the observer as it sends its retreat step *)
TimerFireEarlyResume(r) ==
  /\ LoopIdle
  /\ r.pc \in SleepPcs
  /\ r.rem = 0
  /\ CASE r.pc = "m_settle" ->
            /\ Continue(r, r.k, <<SleepEv(SETTLE)>>)
            /\ UNCHANGED <<STOP_MOVE_SEQUENCE, irObs>>
       [] r.pc = "i_cool1" ->
            /\ Upd(r, "i_retreat", 0, 0,
                   <<SleepEv(COOLDOWN), MoveEv(<<"BACKWARD", RETREAT>>)>>)
            /\ irObs' = [irObs EXCEPT ![r.obs] = TRUE]
            /\ UNCHANGED STOP_MOVE_SEQUENCE
       [] r.pc = "i_settle" ->
            /\ Upd(r, "i_cool2", 0, COOLDOWN, <<SleepEv(SETTLE)>>)
            /\ UNCHANGED <<STOP_MOVE_SEQUENCE, irObs>>
       [] r.pc = "i_cool2" ->
            /\ irObs' = [irObs EXCEPT ![r.obs] = TRUE]
            /\ EnterSequence(r, <<SleepEv(COOLDOWN)>>)
  /\ UNCHANGED <<speechActive, released>>

(* a recovery that resumes the monitor but does not call move_sequence *)
TimerFireNoRestart(r) ==
  /\ LoopIdle
  /\ r.pc \in SleepPcs
  /\ r.rem = 0
  /\ CASE r.pc = "m_settle" ->
            /\ Continue(r, r.k, <<SleepEv(SETTLE)>>)
            /\ UNCHANGED <<STOP_MOVE_SEQUENCE, irObs>>
       [] r.pc = "i_cool1" ->
            /\ Upd(r, "i_retreat", 0, 0,
                   <<SleepEv(COOLDOWN), MoveEv(<<"BACKWARD", RETREAT>>)>>)
            /\ UNCHANGED <<STOP_MOVE_SEQUENCE, irObs>>
       [] r.pc = "i_settle" ->
            /\ Upd(r, "i_cool2", 0, COOLDOWN, <<SleepEv(SETTLE)>>)
            /\ UNCHANGED <<STOP_MOVE_SEQUENCE, irObs>>
       [] r.pc = "i_cool2" ->
            /\ irObs' = [irObs EXCEPT ![r.obs] = TRUE]
            /\ STOP_MOVE_SEQUENCE' = FALSE
            /\ Upd(r, "done", 0, 0, <<SleepEv(COOLDOWN)>>)
  /\ UNCHANGED <<speechActive, released>>

(* an asyncio.sleep(n), n > 0, returns *)
TimerFire(r) ==
  /\ LoopIdle
  /\ r.pc \in SleepPcs
  /\ r.rem = 0
  /\ CASE r.pc = "m_settle" ->
            /\ Continue(r, r.k, <<SleepEv(SETTLE)>>)
            /\ UNCHANGED <<STOP_MOVE_SEQUENCE, irObs>>
       [] r.pc = "i_cool1" ->
            /\ Upd(r, "i_retreat", 0, 0,
                   <<SleepEv(COOLDOWN), MoveEv(<<"BACKWARD", RETREAT>>)>>)
            /\ UNCHANGED <<STOP_MOVE_SEQUENCE, irObs>>
       [] r.pc = "i_settle" ->
            /\ Upd(r, "i_cool2", 0, COOLDOWN, <<SleepEv(SETTLE)>>)
            /\ UNCHANGED <<STOP_MOVE_SEQUENCE, irObs>>
       [] r.pc = "i_cool2" ->
            /\ irObs' = [irObs EXCEPT ![r.obs] = TRUE]
            /\ EnterSequence(r, <<SleepEv(COOLDOWN)>>)
  /\ UNCHANGED <<speechActive, released>>

(* one second passes: no task can run and no sleep has expired *)
Older(r) == IF r.pc \in SleepPcs THEN [r EXCEPT !.rem = @ - 1] ELSE r

Tick ==
  /\ LoopIdle
  /\ \E r \in Tasks : r.pc \in SleepPcs
  /\ \A r \in Tasks : r.pc \in SleepPcs => r.rem > 0
  /\ tasks' = [q \in {Older(r) : r \in Tasks} |->
                 tasks[CHOOSE r \in Tasks : Older(r) = q]]
  /\ UNCHANGED <<STOP_MOVE_SEQUENCE, speechActive, irObs, released>>

(* Mini.quit_program() and Mini.release() have returned inside shutdown *)
ShutdownAck(r) ==
  /\ LoopIdle
  /\ r.pc = "s_shutdown"
  /\ released' = TRUE
  /\ Upd(r, "done", 0, 0, <<>>)
  /\ UNCHANGED <<STOP_MOVE_SEQUENCE, speechActive, irObs>>

Next ==
  \/ \E u \in Utterances : Utter(u)
  \/ \E o \in DOMAIN irObs, d \in Distances : Reading(o, d)
  \/ \E r \in Tasks : SpeechStart(r)
  \/ \E r \in Tasks : StartSequence(r)
  \/ \E r \in Tasks : IrStart(r)
  \/ \E r \in Tasks : TtsAck(r)
  \/ \E r \in Tasks, ok \in BOOLEAN : MoveAck(r, ok)
  \/ \E r \in Tasks : TimerFire(r)
  \/ Tick
  \/ \E r \in Tasks : ShutdownAck(r)

Spec == Init /\ [][Next]_vars

(* ---- fair scheduling: the event loop runs every task that can run, the  *)
(* robot answers every call, and time passes ---- *)
Progress ==
  \E r \in Tasks :
    \/ SpeechStart(r) \/ StartSequence(r) \/ IrStart(r)
    \/ TtsAck(r) \/ MoveAck(r, TRUE) \/ TimerFire(r) \/ ShutdownAck(r)

FairSpec == Spec /\ WF_vars(Progress) /\ WF_vars(Tick)

TypeOK ==
  /\ STOP_MOVE_SEQUENCE \in BOOLEAN
  /\ speechActive \in BOOLEAN
  /\ released \in BOOLEAN
  /\ \A o \in DOMAIN irObs : irObs[o] \in BOOLEAN
  /\ \A r \in Tasks : r.kind \in {"speech", "ir"} /\ r.rem \in 0..COOLDOWN

(* ======================================================================= *)
(* Vocabulary of the properties                                            *)
(* ======================================================================= *)
RunPcs == {"m_wait", "m_settle"}
RecoveryPcs == {"i_tts", "i_cool1", "i_retreat", "i_settle", "i_cool2"}

Moves(r) == SelectSeq(r.hist, LAMBDA e : e.op = "move")
Calls(r) == SelectSeq(r.hist, LAMBDA e : e.op \in {"move", "tts"})
Said(r, text) == \E i \in 1..Len(r.hist) : r.hist[i] = TtsEv(text)
IsPrefix(s, t) == Len(s) <= Len(t) /\ s = SubSeq(t, 1, Len(s))

RECURSIVE SumBag(_, _, _)
SumBag(B, S, f) ==
  IF S = {} THEN 0
  ELSE LET r == CHOOSE x \in S : TRUE IN B[r] * f[r] + SumBag(B, S \ {r}, f)

(* number of move commands sent to the robot by the tasks of bag B *)
NumMovesIn(B) == SumBag(B, BagToSet(B), [r \in BagToSet(B) |-> Len(Moves(r))])

(* number of tasks of bag B satisfying a membership in set S of records *)
NumIn(S) == BagCardinality([r \in S |-> tasks[r]])

Accepted == {r \in Tasks : Said(r, TTS_START)}     \* StartTask handlers
AbortBegun == \E r \in Tasks : Said(r, TTS_SHUT)    \* "finish." being handled
Tripped == {r \in Tasks : Said(r, TTS_OBSTACLE)}    \* trips
ActiveRuns == {r \in Tasks : r.pc \in RunPcs}
InFlight == {r \in Tasks : r.pc \in MovePcs}
OneStart == NumIn(Accepted) = 1

(* positions in the history of r of a non-success result of a plan step   *)
(* (the first move of an obstacle handler is its retreat, not a plan step) *)
PlanFailures(r) ==
  {i \in 2..Len(r.hist) :
     /\ r.hist[i] = ResultEv(FALSE)
     /\ r.hist[i - 1].op = "move"
     /\ r.kind = "ir" => Moves([r EXCEPT !.hist = SubSeq(r.hist, 1, i - 2)]) # <<>>}

FailedRun(r) == PlanFailures(r) # {}

(* task r becomes q in this step *)
Becomes(r, q) ==
  /\ r # q
  /\ tasks' = (tasks (-) SetToBag({r})) (+) SetToBag({q})

(* ----------------------------------------------------------------------- *)
(* C1: every plan step is issued only while the interrupt is not asserted: *)
(* a step of the plan that is sent to the robot is sent with               *)
(* STOP_MOVE_SEQUENCE false, so a trip during step k keeps step k+1 from   *)
(* being issued.                                                           *)
(* ----------------------------------------------------------------------- *)
C1_NoStepWhileInterrupted ==
  [][\A r \in Tasks : \A q \in BagToSet(tasks') :
       (Becomes(r, q) /\ q.pc = "m_wait") => ~STOP_MOVE_SEQUENCE']_vars

(* ----------------------------------------------------------------------- *)
(* C2: at most one execution of the plan is active at any time; stated for *)
(* a single accepted StartTask, where the only other run is the one the    *)
(* obstacle recovery restarts.                                             *)
(* ----------------------------------------------------------------------- *)
C2_SingleActiveRun == OneStart => NumIn(ActiveRuns) <= 1

(* ----------------------------------------------------------------------- *)
(* C3: at most one move command is outstanding at any time (plan steps     *)
(* and the retreat step alike); stated for a single accepted StartTask.    *)
(* ----------------------------------------------------------------------- *)
C3_SingleInFlight == OneStart => NumIn(InFlight) <= 1

(* ----------------------------------------------------------------------- *)
(* C4: a monitor never has a second trip under way before it was resumed   *)
(* after the first: per observer at most one handler is between its        *)
(* observer.stop() and its observer.start().                               *)
(* ----------------------------------------------------------------------- *)
C4_SingleTripPerResume ==
  \A o \in DOMAIN irObs :
    NumIn({r \in Tasks : r.obs = o /\ r.pc \in RecoveryPcs}) <= 1

(* ----------------------------------------------------------------------- *)
(* C5: once the handling of "finish." has begun no new move command is     *)
(* issued, and a released connection stays released.                       *)
(* ----------------------------------------------------------------------- *)
C5_AbortSilences ==
  [][/\ AbortBegun => NumMovesIn(tasks') = NumMovesIn(tasks)
     /\ released => released']_vars

(* ----------------------------------------------------------------------- *)
(* C6: "finish." can be delivered, and so is processed, in every           *)
(* non-terminal state: while a run or a recovery is under way and no       *)
(* abort has begun the speech observer is still listening.                 *)
(* ----------------------------------------------------------------------- *)
C6_AbortAlwaysHeard ==
  (\E r \in Tasks : r.pc \in RunPcs \cup RecoveryPcs) /\ ~AbortBegun
    => speechActive

(* ----------------------------------------------------------------------- *)
(* C7: with one accepted StartTask, no non-success result and no reading   *)
(* below the threshold, the robot is sent Forward 9, Backward 4,           *)
(* Rightward 6, Forward 5 in that order and once each, by the one run,     *)
(* which ends only with the completion announcement, made once.            *)
(* ----------------------------------------------------------------------- *)
NoObstacle ==
  \A r \in Tasks :
    r.kind = "ir" => (r.hist = <<>> /\ (r.pc = "new" => r.distance >= 150))

CleanRunCalls ==
  << TtsEv("Starting cleaning process"),
     Ev("move", "FORWARD", 9), Ev("move", "BACKWARD", 4),
     Ev("move", "RIGHTWARD", 6), Ev("move", "FORWARD", 5),
     TtsEv("Finished cleaning, returning to home position") >>

C7_NoObstacleCompletion ==
  (OneStart /\ NumFailures = 0 /\ NoObstacle) =>
    /\ \A r \in Tasks \ Accepted : Moves(r) = <<>>
    /\ \A r \in Accepted :
         /\ tasks[r] = 1
         /\ IsPrefix(Calls(r), CleanRunCalls)
         /\ r.pc = "done" => Calls(r) = CleanRunCalls

C7_Witness ==
  /\ OneStart /\ NumFailures = 0 /\ NoObstacle
  /\ \E r \in Accepted : r.pc = "done" /\ Calls(r) = CleanRunCalls
  /\ \E r \in Tasks : r.kind = "ir" /\ r.pc = "done"

(* ----------------------------------------------------------------------- *)
(* C8: a run that ended on a non-success result of a plan step has         *)
(* reported the failure: after the failing result the run made some        *)
(* report, so that it is told apart from a halted or unfinished run.       *)
(* ----------------------------------------------------------------------- *)
C8_FailureSurfaced ==
  \A r \in Tasks : \A i \in PlanFailures(r) :
    r.pc = "done" => \E j \in (i + 1)..Len(r.hist) : r.hist[j].op = "tts"

(* ----------------------------------------------------------------------- *)
(* C9: after a non-success result of a plan step the system is at rest:    *)
(* no obstacle handling is begun by a later reading and no move command    *)
(* is issued any more (no retreat, no restarted plan); stated for a single *)
(* accepted StartTask.                                                     *)
(* ----------------------------------------------------------------------- *)
NumTripsIn(B) ==
  SumBag(B, BagToSet(B),
         [r \in BagToSet(B) |-> IF Said(r, TTS_OBSTACLE) THEN 1 ELSE 0])

C9_FailureIsTerminal ==
  [][(OneStart /\ \E r \in Tasks : FailedRun(r))
       => /\ NumTripsIn(tasks') = NumTripsIn(tasks)
          /\ NumMovesIn(tasks') = NumMovesIn(tasks)]_vars

(* ----------------------------------------------------------------------- *)
(* C10: a recovery restarts the plan at Forward 9 and nowhere else, and    *)
(* the restart's first step follows the retreat step, its result and the   *)
(* second cooldown; a handler that got past its second cooldown has        *)
(* issued that first step.                                                 *)
(* ----------------------------------------------------------------------- *)
RecoveryThenRestart(ok) ==
  << TtsEv("Obstacle detected, stopping movement."), SleepEv(2),
     Ev("move", "BACKWARD", 5), ResultEv(ok) >>
  \o (IF ok THEN <<SleepEv(1)>> ELSE <<>>)
  \o << SleepEv(2), Ev("move", "FORWARD", 9) >>

C11_InterruptDiscipline ==
  [][/\ (~STOP_MOVE_SEQUENCE /\ STOP_MOVE_SEQUENCE') =>
          \E r \in Tasks : \E q \in BagToSet(tasks') :
            Becomes(r, q) /\ r.kind = "ir" /\ r.pc = "new" /\ q.pc = "i_tts"
     /\ (STOP_MOVE_SEQUENCE /\ ~STOP_MOVE_SEQUENCE') =>
          \E r \in Tasks : \E q \in BagToSet(tasks') :
            Becomes(r, q) /\ r.pc = "i_cool2" /\ q.pc # "i_cool2"]_vars

(* ----------------------------------------------------------------------- *)
(* C12: once a run has made the completion announcement the system is at   *)
(* rest: no later reading begins an obstacle handling and no move command  *)
(* (retreat or restarted plan step) is issued any more.                    *)
(* ----------------------------------------------------------------------- *)
Completed == \E r \in Tasks : r.pc = "done" /\ Said(r, TTS_FINISHED)

C12_CompletedIsFinal ==
  [][(OneStart /\ Completed)
       => /\ NumTripsIn(tasks') = NumTripsIn(tasks)
          /\ NumMovesIn(tasks') = NumMovesIn(tasks)]_vars

(* ----------------------------------------------------------------------- *)
(* C13: the listener acts on at most one utterance: there are never two    *)
(* start-ups (a second obstacle monitor created), nor a start-up and a     *)
(* shutdown both carried out.                                              *)
(* ----------------------------------------------------------------------- *)
C13_OneShotListener ==
  Len(irObs) + (IF released THEN 1 ELSE 0) <= 1

(* ----------------------------------------------------------------------- *)
(* C14: while a run of the plan is in progress the speech observer is      *)
(* stopped, so an utterance made then gets no handler: in no step taken    *)
(* while a run is in progress is a speech handler created, and so no       *)
(* second run or monitor comes of it.                                      *)
(* ----------------------------------------------------------------------- *)
NumSpeechIn(B) ==
  SumBag(B, BagToSet(B),
         [r \in BagToSet(B) |-> IF r.kind = "speech" THEN 1 ELSE 0])

C14_NoStartWhileRunning ==
  [][ActiveRuns # {} =>
       /\ ~speechActive
       /\ NumSpeechIn(tasks') = NumSpeechIn(tasks)]_vars

C14_Witness ==
  /\ OneStart
  /\ ~speechActive
  /\ Len(irObs) = 1
  /\ \E r \in Accepted : r.pc = "m_wait" /\ r.k = 2

(* ----------------------------------------------------------------------- *)
(* C15: one retreat per trip: a handler that tripped sends Backward 5      *)
(* exactly once, after its announcement and first cooldown and before it   *)
(* resumes the monitor; a handler that did not trip, and a speech handler, *)
(* never sends it.                                                         *)
(* ----------------------------------------------------------------------- *)
Retreats(r) == SelectSeq(r.hist, LAMBDA e : e = Ev("move", "BACKWARD", 5))

C15_OneRetreatPerTrip ==
  \A r \in Tasks :
    /\ r \notin Tripped => Retreats(r) = <<>>
    /\ r \in Tripped =>
         /\ r.hist[1] = TtsEv(TTS_OBSTACLE)
         /\ Len(Retreats(r)) <= 1
         /\ r.pc \in {"i_tts", "i_cool1"} => Retreats(r) = <<>>
         /\ r.pc \notin {"i_tts", "i_cool1"} =>
              Len(Retreats(r)) = 1 /\ r.hist[3] = Ev("move", "BACKWARD", 5)

C15_Witness ==
  /\ NumIn(Tripped) >= 2
  /\ \A r \in Tripped : Len(Retreats(r)) = 1 /\ Len(Moves(r)) >= 2

(* ----------------------------------------------------------------------- *)
(* C16: a recovery goes through its steps in one order: stop the monitor   *)
(* and assert the interrupt, announce, cool down 2 s, send the retreat and *)
(* have it answered, cool down 2 s, then clear the interrupt, resume the   *)
(* monitor and restart the plan in one step; none of its steps before the  *)
(* last touches the interrupt or the monitor.                              *)
(* ----------------------------------------------------------------------- *)
RetreatAnswered(q) ==
  \E i \in 2..Len(q.hist) :
    q.hist[i].op = "result" /\ q.hist[i - 1] = Ev("move", "BACKWARD", 5)

C16_RecoveryOrder ==
  [][\A r \in Tasks : \A q \in BagToSet(tasks') :
       (Becomes(r, q) /\ r.kind = "ir" /\ q.pc # r.pc) =>
         /\ (r.pc = "new" /\ q.pc # "done") =>
              /\ q.pc = "i_tts"
              /\ ~irObs'[r.obs] /\ STOP_MOVE_SEQUENCE'
         /\ r.pc = "i_tts" =>
              /\ q.pc = "i_cool1" /\ q.rem = 2
              /\ UNCHANGED <<irObs, STOP_MOVE_SEQUENCE>>
         /\ r.pc = "i_cool1" =>
              /\ q.pc = "i_retreat"
              /\ q.hist[Len(q.hist)] = Ev("move", "BACKWARD", 5)
              /\ UNCHANGED <<irObs, STOP_MOVE_SEQUENCE>>
         /\ r.pc = "i_retreat" =>
              /\ q.pc \in {"i_settle", "i_cool2"}
              /\ RetreatAnswered(q)
              /\ UNCHANGED <<irObs, STOP_MOVE_SEQUENCE>>
         /\ r.pc = "i_settle" =>
              /\ q.pc = "i_cool2" /\ q.rem = 2
              /\ UNCHANGED <<irObs, STOP_MOVE_SEQUENCE>>
         /\ r.pc = "i_cool2" =>
              /\ RetreatAnswered(q)
              /\ ~STOP_MOVE_SEQUENCE' /\ irObs'[r.obs]
              /\ q.pc = "m_wait" /\ q.k = 1
              /\ q.hist[Len(q.hist)] = Ev("move", "FORWARD", 9)]_vars

C16_Witness ==
  \E r \in Tripped :
    /\ r.pc = "m_wait" /\ r.k = 1
    /\ RetreatAnswered(r)
    /\ irObs[r.obs] /\ ~STOP_MOVE_SEQUENCE

(* ----------------------------------------------------------------------- *)
(* C17: a reading trips exactly if its distance is below 150: the handler  *)
(* of a reading of 150 or more returns and changes nothing, the handler of *)
(* a lower one has stopped its monitor and asserted the interrupt by the   *)
(* time it makes its announcement, the first thing it tells anyone.        *)
(* ----------------------------------------------------------------------- *)
C17_TripIffBelowThreshold ==
  [][\A r \in Tasks : \A q \in BagToSet(tasks') :
       (Becomes(r, q) /\ r.kind = "ir" /\ r.pc = "new") =>
         IF r.distance < 150
         THEN /\ q.pc = "i_tts"
              /\ q.hist = <<TtsEv("Obstacle detected, stopping movement.")>>
              /\ ~irObs'[r.obs] /\ STOP_MOVE_SEQUENCE'
         ELSE /\ q.pc = "done" /\ q.hist = <<>>
              /\ UNCHANGED <<STOP_MOVE_SEQUENCE, irObs, speechActive, released>>]_vars

C17_Witness ==
  /\ \E r \in Tasks : r.kind = "ir" /\ r.pc = "done" /\ r.hist = <<>>
  /\ \E q \in Tripped : q.pc = "i_tts" /\ ~irObs[q.obs]
  /\ STOP_MOVE_SEQUENCE

(* ----------------------------------------------------------------------- *)
(* C18: a non-success result of a plan step is the last thing in its run:  *)
(* the run has returned and neither sends a further step nor makes the     *)
(* completion announcement; a task that made the completion announcement   *)
(* made it right after Forward 9, Backward 4, Rightward 6, Forward 5, each *)
(* answered with success.                                                  *)
(* ----------------------------------------------------------------------- *)
CompletedRun ==
  << Ev("move", "FORWARD", 9), ResultEv(TRUE), SleepEv(1),
     Ev("move", "BACKWARD", 4), ResultEv(TRUE), SleepEv(1),
     Ev("move", "RIGHTWARD", 6), ResultEv(TRUE), SleepEv(1),
     Ev("move", "FORWARD", 5), ResultEv(TRUE), SleepEv(1),
     TtsEv("Finished cleaning, returning to home position") >>

C18_FailureEndsRun ==
  \A r \in Tasks :
    /\ \A i \in PlanFailures(r) : i = Len(r.hist) /\ r.pc = "done"
    /\ Said(r, TTS_FINISHED) =>
         /\ Len(r.hist) >= Len(CompletedRun)
         /\ SubSeq(r.hist, Len(r.hist) - Len(CompletedRun) + 1, Len(r.hist))
              = CompletedRun

C18_Witness ==
  /\ \E r \in Tasks : FailedRun(r) /\ r.k >= 2
  /\ \E q \in Tasks : Said(q, TTS_FINISHED) /\ q.pc = "done"

Announced == \E r \in Tasks : Said(r, TTS_FINISHED)

C20_EventuallyCompleted ==
  (Accepted # {}) ~> (Announced \/ NumFailures > 0)

C20_Witness ==
  /\ NumFailures = 0
  /\ \E r \in Tripped : Said(r, TTS_FINISHED) /\ r.pc = "done"
  /\ \A r \in Tasks : r.pc = "done"

====
